---- MODULE Spec2Model ----
(***************************************************************************)
(* kit-enigo: the napi binding `EnigoJs` (src/src/lib.rs) over the enigo   *)
(* input-synthesis backend.  The binding owns one backend handle; every    *)
(* method is a synchronous call that issues backend calls in program order *)
(* and turns the first backend error into a napi::Error with `?`.          *)
(*                                                                         *)
(* The backend (crate enigo) is external: what a call does to the held-key *)
(* set and which events a Click stands for are taken from the              *)
(* specification's description of the platform backend.  Whether a backend *)
(* call succeeds is the environment's choice.                              *)
(***************************************************************************)
EXTENDS Integers, Sequences, FiniteSets, TLC

VARIABLES
  engine,      \* "unconstructed" | "ready" | "panicked"
  held,        \* backend: platform codes currently held (second part of Enigo::held())
  calls,       \* backend calls issued by the last operation, in order, with outcomes
  result,      \* what the last operation returned to the caller
  lastOp,      \* the last operation and its arguments
  lastFail,    \* the backend outcome schedule the last operation ran against
  heldBefore,  \* heldKeys() as it was when the last operation started
  probe,       \* key catalog: the two logical keys handed to transform_key
  resolved     \* key catalog: what transform_key returned for them

vars == <<engine, held, calls, result, lastOp, lastFail, heldBefore, probe, resolved>>

----------------------------------------------------------------------------
(* Bounds *)

\* longest key list handed to pressKey / releaseKey / pressThenReleaseKey
MaxLen == 3

\* i32::MAX, the width of `clicks: i32`
MaxI32 == 2147483647

MinI32 == -MaxI32 - 1

----------------------------------------------------------------------------
(* Enumerations of the binding *)

ScrollDirection == {"Down", "Up"}

MouseButton == {"Left", "Middle", "Right"}

Digits == {"Num0", "Num1", "Num2", "Num3", "Num4", "Num5", "Num6", "Num7", "Num8", "Num9"}

Letters == {"A", "B", "C", "D", "E", "F", "G", "H", "I", "J", "K", "L", "M",
            "N", "O", "P", "Q", "R", "S", "T", "U", "V", "W", "X", "Y", "Z"}

KeyboardKey ==
  Digits \cup Letters \cup
  {"Add", "Subtract", "Multiply", "Divide", "OEM2", "Tab", "CapsLock", "Shift",
   "Control", "Alt", "Space", "Backspace", "Return", "Escape", "UpArrow",
   "DownArrow", "LeftArrow", "RightArrow", "Meta"}

\* enigo::Key values: Key::Unicode(c) and the named keys
Unicode(c) == <<"Unicode", c>>

Named(n) == <<n>>

transform_key_oem2_as_slash(key) ==
  CASE key = "Num0" -> Unicode("0") [] key = "Num1" -> Unicode("1")
    [] key = "Num2" -> Unicode("2") [] key = "Num3" -> Unicode("3")
    [] key = "Num4" -> Unicode("4") [] key = "Num5" -> Unicode("5")
    [] key = "Num6" -> Unicode("6") [] key = "Num7" -> Unicode("7")
    [] key = "Num8" -> Unicode("8") [] key = "Num9" -> Unicode("9")
    [] key = "A" -> Unicode("a") [] key = "B" -> Unicode("b")
    [] key = "C" -> Unicode("c") [] key = "D" -> Unicode("d")
    [] key = "E" -> Unicode("e") [] key = "F" -> Unicode("f")
    [] key = "G" -> Unicode("g") [] key = "H" -> Unicode("h")
    [] key = "I" -> Unicode("i") [] key = "J" -> Unicode("j")
    [] key = "K" -> Unicode("k") [] key = "L" -> Unicode("l")
    [] key = "M" -> Unicode("m") [] key = "N" -> Unicode("n")
    [] key = "O" -> Unicode("o") [] key = "P" -> Unicode("p")
    [] key = "Q" -> Unicode("q") [] key = "R" -> Unicode("r")
    [] key = "S" -> Unicode("s") [] key = "T" -> Unicode("t")
    [] key = "U" -> Unicode("u") [] key = "V" -> Unicode("v")
    [] key = "W" -> Unicode("w") [] key = "X" -> Unicode("x")
    [] key = "Y" -> Unicode("y") [] key = "Z" -> Unicode("z")
    [] key = "Add" -> Unicode("+") [] key = "Subtract" -> Unicode("-")
    [] key = "Multiply" -> Unicode("*") [] key = "Divide" -> Unicode("/")
    [] key = "Tab" -> Named("Tab") [] key = "CapsLock" -> Named("CapsLock")
    [] key = "Meta" -> Named("Meta") [] key = "Shift" -> Named("Shift")
    [] key = "Control" -> Named("Control") [] key = "Alt" -> Named("Alt")
    [] key = "Space" -> Named("Space") [] key = "Backspace" -> Named("Backspace")
    [] key = "Return" -> Named("Return") [] key = "Escape" -> Named("Escape")
    [] key = "UpArrow" -> Named("UpArrow") [] key = "DownArrow" -> Named("DownArrow")
    [] key = "LeftArrow" -> Named("LeftArrow") [] key = "RightArrow" -> Named("RightArrow")
    [] key = "OEM2" -> Unicode("/")

\* fn transform_key(key: KeyboardKey) -> Key
transform_key(key) ==
  CASE key = "Num0" -> Unicode("0") [] key = "Num1" -> Unicode("1")
    [] key = "Num2" -> Unicode("2") [] key = "Num3" -> Unicode("3")
    [] key = "Num4" -> Unicode("4") [] key = "Num5" -> Unicode("5")
    [] key = "Num6" -> Unicode("6") [] key = "Num7" -> Unicode("7")
    [] key = "Num8" -> Unicode("8") [] key = "Num9" -> Unicode("9")
    [] key = "A" -> Unicode("a") [] key = "B" -> Unicode("b")
    [] key = "C" -> Unicode("c") [] key = "D" -> Unicode("d")
    [] key = "E" -> Unicode("e") [] key = "F" -> Unicode("f")
    [] key = "G" -> Unicode("g") [] key = "H" -> Unicode("h")
    [] key = "I" -> Unicode("i") [] key = "J" -> Unicode("j")
    [] key = "K" -> Unicode("k") [] key = "L" -> Unicode("l")
    [] key = "M" -> Unicode("m") [] key = "N" -> Unicode("n")
    [] key = "O" -> Unicode("o") [] key = "P" -> Unicode("p")
    [] key = "Q" -> Unicode("q") [] key = "R" -> Unicode("r")
    [] key = "S" -> Unicode("s") [] key = "T" -> Unicode("t")
    [] key = "U" -> Unicode("u") [] key = "V" -> Unicode("v")
    [] key = "W" -> Unicode("w") [] key = "X" -> Unicode("x")
    [] key = "Y" -> Unicode("y") [] key = "Z" -> Unicode("z")
    [] key = "Add" -> Unicode("+") [] key = "Subtract" -> Unicode("-")
    [] key = "Multiply" -> Unicode("*") [] key = "Divide" -> Unicode("/")
    [] key = "Tab" -> Named("Tab") [] key = "CapsLock" -> Named("CapsLock")
    [] key = "Meta" -> Named("Meta") [] key = "Shift" -> Named("Shift")
    [] key = "Control" -> Named("Control") [] key = "Alt" -> Named("Alt")
    [] key = "Space" -> Named("Space") [] key = "Backspace" -> Named("Backspace")
    [] key = "Return" -> Named("Return") [] key = "Escape" -> Named("Escape")
    [] key = "UpArrow" -> Named("UpArrow") [] key = "DownArrow" -> Named("DownArrow")
    [] key = "LeftArrow" -> Named("LeftArrow") [] key = "RightArrow" -> Named("RightArrow")
    [] key = "OEM2" -> Named("End")

----------------------------------------------------------------------------
(* The backend (crate enigo), as the specification describes it *)

\* the backend errors a call can fail with
InputError == {"Simulate", "InvalidInput"}

\* e.to_string(): the error's descriptive text
to_string(e) ==
  CASE e = "Simulate" -> "simulating input failed"
    [] e = "InvalidInput" -> "the input to simulate was invalid"

\* the platform code the backend holds for a key
PlatformCode(key) == <<"code", key>>

\* A schedule of backend outcomes for one operation: call number `at` fails
\* with `cause`, every other call succeeds; at = 0 is "every call succeeds".
NoFail == [at |-> 0, cause |-> "ok"]

Fails(n) == {NoFail} \cup {[at |-> i, cause |-> c] : i \in 1..n, c \in InputError}

Outcome(fail, n) == IF fail.at = n THEN fail.cause ELSE "ok"

\* the backend at the start of an operation
Start == [held |-> held, calls |-> <<>>, err |-> "ok", value |-> <<>>]

Call(st, api, args, fail) ==
  LET o == Outcome(fail, Len(st.calls) + 1)
  IN  [st EXCEPT !.calls = Append(@, [api |-> api, args |-> args, outcome |-> o]),
                 !.err = o]

\* Keyboard::key(key, direction)
enigo_key(st, key, direction, fail) ==
  LET s1 == Call(st, "key", <<key, direction>>, fail)
  IN  IF s1.err # "ok" THEN s1
      ELSE [s1 EXCEPT !.held =
              CASE direction = "Press" -> @ \cup {PlatformCode(key)}
                [] direction = "Release" -> @ \ {PlatformCode(key)}
                [] OTHER -> @]

\* Mouse::button(button, direction): pointer buttons are not part of the held keys
enigo_button(st, button, direction, fail) ==
  Call(st, "button", <<button, direction>>, fail)

\* Mouse::scroll(length, axis)
enigo_scroll(st, length, axis, fail) ==
  Call(st, "scroll", <<length, axis>>, fail)

\* Mouse::move_mouse(x, y, coordinate)
enigo_move_mouse(st, x, y, coordinate, fail) ==
  Call(st, "move_mouse", <<x, y, coordinate>>, fail)

\* Mouse::location(): the pointer is wherever the OS says it is
enigo_location(st, at, fail) ==
  LET s1 == Call(st, "location", <<>>, fail)
  IN  IF s1.err # "ok" THEN s1 ELSE [s1 EXCEPT !.value = at]

\* Keyboard::text(content)
enigo_text(st, content, fail) ==
  Call(st, "text", <<content>>, fail)

\* The input events a successful backend call stands for: a Click is a Press
\* immediately followed by a Release.
Events(c) ==
  IF c.outcome # "ok" \/ c.api \notin {"key", "button"} THEN <<>>
  ELSE IF c.args[2] = "Click"
       THEN << <<c.api, c.args[1], "Press">>, <<c.api, c.args[1], "Release">> >>
       ELSE << <<c.api, c.args[1], c.args[2]>> >>

RECURSIVE AllEvents(_)
AllEvents(cs) == IF cs = <<>> THEN <<>> ELSE Events(Head(cs)) \o AllEvents(Tail(cs))

----------------------------------------------------------------------------
(* The binding's methods, as functions of the backend state and the         *)
(* outcome schedule                                                         *)

\* napi::Error::from_reason(reason)
from_reason(reason) == [tag |-> "Err", status |-> "GenericFailure", reason |-> reason, value |-> <<>>]

Ok(v) == [tag |-> "Ok", status |-> "Ok", reason |-> "", value |-> v]

\* .map_err(|e| napi::Error::from_reason(e.to_string()))
map_err(st) == IF st.err = "ok" THEN Ok(st.value) ELSE from_reason(to_string(st.err))

\* for key in keys { let key = transform_key(key); self.enigo.key(key, direction).map_err(..)?; }
\* the loop with the error of a call dropped instead of returned with `?`
RECURSIVE key_loop_ignoring_errors(_, _, _, _)
key_loop_ignoring_errors(st, keys, direction, fail) ==
  IF keys = <<>> THEN st
  ELSE LET s1 == enigo_key(st, transform_key(Head(keys)), direction, fail)
       IN  key_loop_ignoring_errors([s1 EXCEPT !.err = "ok"], Tail(keys), direction, fail)

RECURSIVE key_loop(_, _, _, _)
key_loop(st, keys, direction, fail) ==
  IF keys = <<>> THEN st
  ELSE LET s1 == enigo_key(st, transform_key(Head(keys)), direction, fail)
       IN  IF s1.err # "ok" THEN s1
           ELSE key_loop(s1, Tail(keys), direction, fail)

\* press_key that releases what it pressed when a Press fails
press_key_with_rollback(st, keys, fail) ==
  LET s1 == key_loop(st, keys, "Press", fail)
      pressed == SubSeq(keys, 1, Len(s1.calls) - Len(st.calls) - 1)
  IN  IF s1.err = "ok" THEN s1
      ELSE [key_loop([s1 EXCEPT !.err = "ok"], pressed, "Release", fail)
              EXCEPT !.err = s1.err]

press_key(st, keys, fail) == key_loop(st, keys, "Press", fail)

\* release_key with the direction of press_key
release_key_pressing(st, keys, fail) == key_loop(st, keys, "Press", fail)

release_key(st, keys, fail) == key_loop(st, keys, "Release", fail)

Values(keys) == [i \in DOMAIN keys |-> keys[i].value]

\* one pass, each key pressed and released before the next
RECURSIVE press_then_release_key_interleaved(_, _, _)
press_then_release_key_interleaved(st, keys, fail) ==
  IF keys = <<>> THEN st
  ELSE LET s1 == key_loop(st, <<Head(keys).value>>, "Press", fail)
           s2 == IF s1.err # "ok" THEN s1
                 ELSE key_loop(s1, <<Head(keys).value>>, "Release", fail)
       IN  IF s2.err # "ok" THEN s2
           ELSE press_then_release_key_interleaved(s2, Tail(keys), fail)

\* one pass, the direction of each entry chosen by its down flag
RECURSIVE press_then_release_key_by_flag(_, _, _)
press_then_release_key_by_flag(st, keys, fail) ==
  IF keys = <<>> THEN st
  ELSE LET s1 == key_loop(st, <<Head(keys).value>>,
                          IF Head(keys).down THEN "Press" ELSE "Release", fail)
       IN  IF s1.err # "ok" THEN s1
           ELSE press_then_release_key_by_flag(s1, Tail(keys), fail)

Reverse(keys) == [i \in DOMAIN keys |-> keys[Len(keys) + 1 - i]]

\* two passes, the second in reverse list order
press_then_release_key_reverse_release(st, keys, fail) ==
  LET s1 == key_loop(st, Values(keys), "Press", fail)
  IN  IF s1.err # "ok" THEN s1
      ELSE key_loop(s1, Reverse(Values(keys)), "Release", fail)

press_then_release_key(st, keys, fail) ==
  LET s1 == key_loop(st, Values(keys), "Press", fail)
  IN  IF s1.err # "ok" THEN s1
      ELSE key_loop(s1, Values(keys), "Release", fail)

\* set_button_click with the direction of a toggle
set_button_click_press_only(st, button, fail) == enigo_button(st, button, "Press", fail)

set_button_click(st, button, fail) == enigo_button(st, button, "Click", fail)

set_button_toggle(st, button, down, fail) ==
  enigo_button(st, button, IF down THEN "Press" ELSE "Release", fail)

\* -clicks on an i32 with overflow checks off: two's complement negation
wrapping_neg(n) == IF n = MinI32 THEN MinI32 ELSE -n

\* `-clicks` overflows only for i32::MIN
neg_overflows(n) == n = MinI32

set_mouse_scroll(st, direction, clicks, fail) ==
  LET length == IF direction = "Down" THEN clicks ELSE wrapping_neg(clicks)
  IN  enigo_scroll(st, length, "Vertical", fail)

set_mouse_position(st, x, y, fail) == enigo_move_mouse(st, x, y, "Abs", fail)

get_mouse_position(st, at, fail) == enigo_location(st, at, fail)

type_text(st, content, fail) == enigo_text(st, content, fail)

\* pub fn held(&mut self): the platform codes of Enigo::held()
heldKeys == held

----------------------------------------------------------------------------
(* Inputs *)

\* the keys of a chord such as Ctrl+C
KeysUsed == {"Control", "C"}

RECURSIVE SeqsUpTo(_, _)
SeqsUpTo(S, n) ==
  IF n = 0 THEN {<<>>}
  ELSE LET shorter == SeqsUpTo(S, n - 1)
       IN  shorter \cup {Append(s, x) : s \in shorter, x \in S}

KeyLists == SeqsUpTo(KeysUsed, MaxLen)

ToggleKey == [value : KeysUsed, down : BOOLEAN]

ToggleLists == SeqsUpTo(ToggleKey, MaxLen)

Clicks == {MinI32, -5, -1, 0, 1, 5, MaxI32}

Coordinates == {-1, 0, 1920}

Texts == {"", "hi"}

----------------------------------------------------------------------------
(* Specification of the engine *)

None == [op |-> "none", args |-> <<>>]

Init ==
  /\ engine = "unconstructed"
  /\ held = {}
  /\ calls = <<>>
  /\ result = Ok(<<>>)
  /\ lastOp = None
  /\ lastFail = NoFail
  /\ heldBefore = {}
  /\ probe = <<>>
  /\ resolved = <<>>

\* the engine is constructed and the caller is about to make a call
Ready == engine = "ready" /\ lastOp = None

\* an operation ran to its return
Returns(op, args, fail, st) ==
  /\ held' = st.held
  /\ calls' = st.calls
  /\ result' = map_err(st)
  /\ lastOp' = [op |-> op, args |-> args]
  /\ lastFail' = fail
  /\ heldBefore' = held
  /\ UNCHANGED <<engine, probe, resolved>>

\* an operation panicked before it issued a backend call
Panics(op, args) ==
  /\ engine' = "panicked"
  /\ calls' = <<>>
  /\ result' = [tag |-> "Panic", status |-> "", reason |-> "", value |-> <<>>]
  /\ lastOp' = [op |-> op, args |-> args]
  /\ lastFail' = NoFail
  /\ heldBefore' = held
  /\ UNCHANGED <<held, probe, resolved>>

\* new Enigo(): Enigo::new(&Settings::default()).unwrap()
New ==
  /\ engine = "unconstructed"
  /\ lastOp = None
  /\ \E backendOk \in BOOLEAN :
       IF backendOk
       THEN /\ engine' = "ready"
            /\ lastOp' = [op |-> "new", args |-> <<>>]
            /\ UNCHANGED <<held, calls, result, lastFail, heldBefore, probe, resolved>>
       ELSE Panics("new", <<>>)

\* The caller has taken the last operation's result and is about to make its
\* next call (calls are synchronous and sequential): the record of the last
\* operation is dropped, the engine and the backend keep their state.
Observe ==
  /\ lastOp # None
  /\ engine # "panicked"
  /\ calls' = <<>>
  /\ result' = Ok(<<>>)
  /\ lastOp' = None
  /\ lastFail' = NoFail
  /\ heldBefore' = held
  /\ UNCHANGED <<engine, held, probe, resolved>>

Held ==
  /\ Ready
  /\ Returns("held", <<>>, NoFail, [Start EXCEPT !.value = <<heldKeys>>])

GetMousePosition ==
  /\ Ready
  /\ \E x \in Coordinates, y \in Coordinates, fail \in Fails(1) :
       Returns("get_mouse_position", <<>>, fail, get_mouse_position(Start, <<x, y>>, fail))

SetMousePosition ==
  /\ Ready
  /\ \E x \in Coordinates, y \in Coordinates, fail \in Fails(1) :
       Returns("set_mouse_position", <<x, y>>, fail, set_mouse_position(Start, x, y, fail))

SetButtonClick ==
  /\ Ready
  /\ \E button \in MouseButton, fail \in Fails(1) :
       Returns("set_button_click", <<button>>, fail, set_button_click(Start, button, fail))

SetButtonToggle ==
  /\ Ready
  /\ \E button \in MouseButton, down \in BOOLEAN, fail \in Fails(1) :
       Returns("set_button_toggle", <<button, down>>, fail,
               set_button_toggle(Start, button, down, fail))

\* overflowChecks: whether the build panics on arithmetic overflow (debug) or wraps
SetMouseScroll ==
  /\ Ready
  /\ \E direction \in ScrollDirection, clicks \in Clicks,
        overflowChecks \in BOOLEAN, fail \in Fails(1) :
       IF direction = "Up" /\ neg_overflows(clicks) /\ overflowChecks
       THEN Panics("set_mouse_scroll", <<direction, clicks>>)
       ELSE Returns("set_mouse_scroll", <<direction, clicks>>, fail,
                    set_mouse_scroll(Start, direction, clicks, fail))

TypeText ==
  /\ Ready
  /\ \E content \in Texts, fail \in Fails(1) :
       Returns("type_text", <<content>>, fail, type_text(Start, content, fail))

PressKey ==
  /\ Ready
  /\ \E keys \in KeyLists :
       \E fail \in Fails(Len(keys)) :
         Returns("press_key", keys, fail, press_key(Start, keys, fail))

ReleaseKey ==
  /\ Ready
  /\ \E keys \in KeyLists :
       \E fail \in Fails(Len(keys)) :
         Returns("release_key", keys, fail, release_key(Start, keys, fail))

PressThenReleaseKey ==
  /\ Ready
  /\ \E keys \in ToggleLists :
       \E fail \in Fails(2 * Len(keys)) :
         Returns("press_then_release_key", keys, fail,
                 press_then_release_key(Start, keys, fail))

Next ==
  \/ New
  \/ Observe
  \/ Held
  \/ GetMousePosition
  \/ SetMousePosition
  \/ SetButtonClick
  \/ SetButtonToggle
  \/ SetMouseScroll
  \/ TypeText
  \/ PressKey
  \/ ReleaseKey
  \/ PressThenReleaseKey

Spec == Init /\ [][Next]_vars

----------------------------------------------------------------------------
(* Specification of the key catalog: transform_key applied to pairs of keys *)

\* the inputs: any two logical keys
InitCatalog ==
  /\ engine = "unconstructed"
  /\ held = {}
  /\ calls = <<>>
  /\ result = Ok(<<>>)
  /\ lastOp = None
  /\ lastFail = NoFail
  /\ heldBefore = {}
  /\ probe \in KeyboardKey \X KeyboardKey
  /\ resolved = <<>>

Resolve ==
  /\ resolved = <<>>
  /\ resolved' = <<transform_key(probe[1]), transform_key(probe[2])>>
  /\ UNCHANGED <<engine, held, calls, result, lastOp, lastFail, heldBefore, probe>>

NextCatalog == Resolve

SpecCatalog == InitCatalog /\ [][NextCatalog]_vars

----------------------------------------------------------------------------
(* Properties *)

Codes(keys) == {PlatformCode(transform_key(keys[i])) : i \in DOMAIN keys}

Prefix(keys, n) == SubSeq(keys, 1, n)

IsKeyCall(c, k, direction) ==
  c.api = "key" /\ c.args = <<transform_key(k), direction>>

\* C1: when every backend call succeeds, pressThenReleaseKeys([d1..dn]) issues
\* exactly Press(d1.key) .. Press(dn.key), Release(d1.key) .. Release(dn.key):
\* every Press of the batch before every Release, each pass in list order.
C1_PressAllThenReleaseAll ==
  (lastOp.op = "press_then_release_key" /\ lastFail = NoFail) =>
    LET ks == Values(lastOp.args)
        n  == Len(ks)
    IN  /\ result.tag = "Ok"
        /\ Len(calls) = 2 * n
        /\ \A i \in 1..n : /\ IsKeyCall(calls[i], ks[i], "Press")
                           /\ IsKeyCall(calls[n + i], ks[i], "Release")
                           /\ calls[i].outcome = "ok"
                           /\ calls[n + i].outcome = "ok"

C1_Witness ==
  /\ lastOp.op = "press_then_release_key"
  /\ lastFail = NoFail
  /\ Len(lastOp.args) = 2
  /\ lastOp.args[1] = [value |-> "Control", down |-> TRUE]
  /\ lastOp.args[2] = [value |-> "C", down |-> FALSE]
  /\ Len(calls) = 4

OppositeEqualMagnitude(a, b) ==
  \/ a = 0 /\ b = 0
  \/ a < 0 /\ b > 0 /\ a + b = 0
  \/ a > 0 /\ b < 0 /\ a + b = 0

C4_ScrollOppositeSign ==
  lastOp.op = "set_mouse_scroll" =>
    /\ result.tag # "Panic"
    /\ Len(calls) = 1
    /\ calls[1].api = "scroll"
    /\ calls[1].args[2] = "Vertical"
    /\ lastOp.args[1] = "Down" => calls[1].args[1] = lastOp.args[2]
    /\ lastOp.args[1] = "Up" => OppositeEqualMagnitude(calls[1].args[1], lastOp.args[2])

FlagVariants(keys) ==
  {[i \in DOMAIN keys |-> [value |-> keys[i].value, down |-> f[i]]] :
     f \in [DOMAIN keys -> BOOLEAN]}

C6_DownFlagIgnored ==
  lastOp.op = "press_then_release_key" =>
    \A other \in FlagVariants(lastOp.args) :
      LET s == press_then_release_key(
                 [held |-> heldBefore, calls |-> <<>>, err |-> "ok", value |-> <<>>],
                 other, lastFail)
      IN  /\ s.calls = calls
          /\ s.held = heldKeys
          /\ map_err(s) = result

C6_Witness ==
  /\ lastOp.op = "press_then_release_key"
  /\ Len(lastOp.args) = 2
  /\ lastOp.args[1].down
  /\ ~lastOp.args[2].down
  /\ lastOp.args[1].value # lastOp.args[2].value
  /\ Cardinality(FlagVariants(lastOp.args)) = 4

\* C7: the key catalog is defined on all 55 KeyboardKey values and no two
\* distinct logical keys resolve to the same backend key, so the logical keys
\* that resolve to transform_key(k) are exactly {k}; OEM2 resolves to End,
\* which no other logical key resolves to.
Decode(key) == {k \in KeyboardKey : transform_key(k) = key}

C7_CatalogInjective ==
  /\ Cardinality(KeyboardKey) = 55
  /\ resolved # <<>> =>
       /\ resolved[1] = resolved[2] => probe[1] = probe[2]
       /\ Decode(resolved[1]) = {probe[1]}
       /\ (probe[1] = "OEM2") = (resolved[1] = Named("End"))

C7_Witness ==
  /\ probe = <<"OEM2", "Divide">>
  /\ resolved = <<Named("End"), Unicode("/")>>

\* C8: constructing an engine when the backend cannot initialise returns an
\* error value to the caller: construction yields a usable engine or an error
\* value, never an abort.
C8_ConstructionReturnsError ==
  lastOp.op = "new" => engine = "ready" \/ result.tag = "Err"

\* C9: in every operation the first backend call that fails is the last call
\* the operation issues, the operation returns an error carrying that call's
\* cause text, no call beyond the planned ones is issued (no retry), and the
\* operation returns success only if every call it issued succeeded.
PlannedCalls ==
  CASE lastOp.op \in {"press_key", "release_key"} -> Len(lastOp.args)
    [] lastOp.op = "press_then_release_key" -> 2 * Len(lastOp.args)
    [] lastOp.op \in {"none", "new", "held"} -> 0
    [] OTHER -> 1

C9_FirstFailureReturned ==
  result.tag # "Panic" =>
    /\ Len(calls) <= PlannedCalls
    /\ \A i \in 1..Len(calls) : calls[i].outcome # "ok" => i = Len(calls)
    /\ \A i \in 1..Len(calls) :
         calls[i].outcome # "ok" => result = from_reason(to_string(calls[i].outcome))
    /\ result.tag = "Ok" =>
         /\ \A i \in 1..Len(calls) : calls[i].outcome = "ok"
         /\ Len(calls) = PlannedCalls
    /\ (\A i \in 1..Len(calls) : calls[i].outcome = "ok") => result.tag = "Ok"

C9_Witness ==
  /\ lastOp.op = "press_then_release_key"
  /\ Len(lastOp.args) = 3
  /\ Len(calls) = 4
  /\ calls[4].outcome = "InvalidInput"
  /\ result = from_reason("the input to simulate was invalid")

====
